---------------------------- MODULE Spec2Model ----------------------------
(***************************************************************************)
(* Model of the commander leaderboard:                                     *)
(*   app/elo.py   calculate_elo, update_elos_in_db                         *)
(*   app/game.py  validate_game_submission, submit_game, show_game_form    *)
(*   app/admin.py form_add_player, form_delete_player                      *)
(*   app/auth.py  check_password, is_session_valid, login_form,            *)
(*                logout_button                                            *)
(*   app/run.py   main                                                     *)
(*   app/db.py    the tables players, games, game_players, and             *)
(*                get_player_leaderboard                                   *)
(*                                                                         *)
(* Ratings and deltas are held in hundredths (cents): the store keeps      *)
(* floats of two-decimal values, and Decimal(str(float)) reads them back   *)
(* exactly.  Decimal values inside calculate_elo are pairs [c, e] standing *)
(* for c * 10^e, kept normalised (no trailing zero in c), and every        *)
(* arithmetic operation rounds to the context precision (4 significant     *)
(* digits, half-even), as the decimal module does.                         *)
(***************************************************************************)
EXTENDS Integers, Sequences, FiniteSets, TLC

VARIABLES players, games, game_players, conn, lock, ncalls, calc, ui

vars == <<players, games, game_players, conn, lock, ncalls, calc, ui>>

(***************************************************************************)
(* Bounds of the model.                                                    *)
(***************************************************************************)
MaxCalls == 2          \* update_elos_in_db invocations explored per run
MaxLosers == 2         \* longest loser_ids / losers_elos list explored

(***************************************************************************)
(* Program constants.                                                      *)
(***************************************************************************)
DecPrec == 4           \* getcontext().prec = 4
K_FACTOR == 32         \* K_FACTOR = Decimal(32)

(***************************************************************************)
(* Decimal arithmetic at context precision DecPrec, ROUND_HALF_EVEN.       *)
(***************************************************************************)
Abs(n) == IF n < 0 THEN -n ELSE n

Sign(n) == IF n < 0 THEN -1 ELSE 1

RECURSIVE NDigits(_)
NDigits(n) == IF n < 10 THEN 1 ELSE 1 + NDigits(n \div 10)

RECURSIVE Norm(_, _)
Norm(c, e) ==
    IF c = 0 THEN [c |-> 0, e |-> 0]
    ELSE IF c % 10 = 0 THEN Norm(c \div 10, e + 1)
    ELSE [c |-> c, e |-> e]

\* The value c * 10^e rounded to DecPrec significant digits, half-even;
\* sticky says that non-zero digits lie beyond those of c (a division's
\* remainder), which turns an apparent tie into a round-up.
DecRound(c, e, sticky) ==
    LET a == Abs(c)
        n == NDigits(a) - DecPrec
    IN  IF n <= 0 THEN Norm(c, e)
        ELSE LET p == 10 ^ n
                 q == a \div p
                 r == a % p
                 half == 5 * 10 ^ (n - 1)
                 up == r > half \/ (r = half /\ (sticky \/ q % 2 = 1))
             IN  Norm(Sign(c) * (IF up THEN q + 1 ELSE q), e + n)

Dec(n) == Norm(n, 0)

\* Decimal(str(x)) of a stored two-decimal float, given in cents: exact.
DecOfCents(cents) == Norm(cents, -2)

DecNeg(a) == [c |-> -a.c, e |-> a.e]

DecAdd(a, b) ==
    LET m == IF a.e < b.e THEN a.e ELSE b.e
    IN  DecRound(a.c * 10 ^ (a.e - m) + b.c * 10 ^ (b.e - m), m, FALSE)

DecSub(a, b) == DecAdd(a, DecNeg(b))

DecMul(a, b) == DecRound(a.c * b.c, a.e + b.e, FALSE)

RECURSIVE ScaleUp(_, _, _)
ScaleUp(n, d, sh) ==
    IF n >= d * 10 ^ (DecPrec + 1) THEN <<n, sh>> ELSE ScaleUp(n * 10, d, sh + 1)

\* a / b for b # 0.
DecDiv(a, b) ==
    IF a.c = 0 THEN Dec(0)
    ELSE LET s == Sign(a.c) * Sign(b.c)
             ns == ScaleUp(Abs(a.c), Abs(b.c), 0)
             q == ns[1] \div Abs(b.c)
             r == ns[1] % Abs(b.c)
         IN  DecRound(s * q, a.e - b.e - ns[2], r # 0)

\* round(x, 2): x.quantize(Decimal("0.01")) in hundredths, half-even. The
\* result is <<cents>>, or <<>> when the quantized coefficient needs more
\* than DecPrec digits (decimal raises InvalidOperation).
Quantize2(a) ==
    LET v == IF a.e >= -2 THEN a.c * 10 ^ (a.e + 2)
             ELSE LET n == -2 - a.e
                      p == 10 ^ n
                      q == Abs(a.c) \div p
                      r == Abs(a.c) % p
                      half == 5 * 10 ^ (n - 1)
                      up == r > half \/ (r = half /\ q % 2 = 1)
                  IN  Sign(a.c) * (IF up THEN q + 1 ELSE q)
    IN  IF Abs(v) >= 10 ^ DecPrec THEN <<>> ELSE <<v>>

Range(s) == {s[i] : i \in DOMAIN s}

\* Decimal(10) ** q at precision DecPrec, tabulated from the decimal module
\* for the exponents q = [c, e] the model reaches: a row is
\* <<q.c, q.e, r.c, r.e>> with 10^q = r.
PowRows ==
    << <<-9425, -6, 9785, -4>>, <<-8275, -6, 9811, -4>>,
      <<-5575, -6, 9872, -4>>, <<-4425, -6, 9899, -4>>,
      <<4425, -6, 101, -2>>, <<5575, -6, 1013, -3>>, <<8275, -6, 1019, -3>>,
      <<9425, -6, 1022, -3>>, <<-9115, -5, 8107, -4>>,
      <<-8942, -5, 8139, -4>>, <<-8885, -5, 815, -3>>,
      <<-8828, -5, 8161, -4>>, <<-8442, -5, 8233, -4>>,
      <<-8385, -5, 8244, -4>>, <<-7058, -5, 85, -2>>,
      <<-6942, -5, 8523, -4>>, <<-6885, -5, 8534, -4>>,
      <<-6615, -5, 8587, -4>>, <<-6558, -5, 8598, -4>>,
      <<-6442, -5, 8621, -4>>, <<-6385, -5, 8633, -4>>,
      <<-6328, -5, 8644, -4>>, <<-6115, -5, 8687, -4>>,
      <<-6058, -5, 8698, -4>>, <<-5115, -5, 8889, -4>>,
      <<-4885, -5, 8936, -4>>, <<-4615, -5, 8992, -4>>,
      <<-4558, -5, 9004, -4>>, <<-4442, -5, 9028, -4>>,
      <<-4385, -5, 904, -3>>, <<-3558, -5, 9213, -4>>,
      <<-3115, -5, 9308, -4>>, <<-3088, -5, 9314, -4>>,
      <<-3058, -5, 932, -3>>, <<-2942, -5, 9345, -4>>,
      <<-2558, -5, 9428, -4>>, <<-2442, -5, 9453, -4>>,
      <<-2115, -5, 9525, -4>>, <<-2058, -5, 9537, -4>>,
      <<-1942, -5, 9563, -4>>, <<-1885, -5, 9575, -4>>,
      <<-1672, -5, 9622, -4>>, <<-1615, -5, 9635, -4>>,
      <<-1558, -5, 9648, -4>>, <<-1442, -5, 9673, -4>>,
      <<-1385, -5, 9686, -4>>, <<-1288, -5, 9708, -4>>,
      <<-1115, -5, 9747, -4>>, <<-885, -5, 9798, -4>>,
      <<-615, -5, 9859, -4>>, <<-385, -5, 9912, -4>>, <<385, -5, 1009, -3>>,
      <<615, -5, 1014, -3>>, <<885, -5, 1021, -3>>, <<1115, -5, 1026, -3>>,
      <<1288, -5, 103, -2>>, <<1385, -5, 1032, -3>>, <<1442, -5, 1034, -3>>,
      <<1558, -5, 1037, -3>>, <<1615, -5, 1038, -3>>,
      <<1672, -5, 1039, -3>>, <<1885, -5, 1044, -3>>,
      <<1942, -5, 1046, -3>>, <<2058, -5, 1049, -3>>, <<2115, -5, 105, -2>>,
      <<2442, -5, 1058, -3>>, <<2558, -5, 1061, -3>>,
      <<2885, -5, 1069, -3>>, <<2942, -5, 107, -2>>, <<3058, -5, 1073, -3>>,
      <<3088, -5, 1074, -3>>, <<3558, -5, 1085, -3>>,
      <<4385, -5, 1106, -3>>, <<4442, -5, 1108, -3>>,
      <<4558, -5, 1111, -3>>, <<4615, -5, 1112, -3>>,
      <<4885, -5, 1119, -3>>, <<5115, -5, 1125, -3>>, <<6058, -5, 115, -2>>,
      <<6115, -5, 1151, -3>>, <<6328, -5, 1157, -3>>,
      <<6385, -5, 1158, -3>>, <<6442, -5, 116, -2>>, <<6558, -5, 1163, -3>>,
      <<6615, -5, 1165, -3>>, <<6942, -5, 1173, -3>>,
      <<7058, -5, 1176, -3>>, <<7115, -5, 1178, -3>>,
      <<8385, -5, 1213, -3>>, <<8442, -5, 1215, -3>>,
      <<8828, -5, 1225, -3>>, <<8885, -5, 1227, -3>>,
      <<8942, -5, 1229, -3>>, <<9115, -5, 1234, -3>>,
      <<-6172, -4, 2414, -4>>, <<-5865, -4, 2591, -4>>,
      <<-4445, -4, 3593, -4>>, <<-1728, -4, 6717, -4>>,
      <<-1254, -4, 7492, -4>>, <<-1077, -4, 7804, -4>>,
      <<-1071, -4, 7814, -4>>, <<-1027, -4, 7894, -4>>,
      <<-877, -4, 8171, -4>>, <<-864, -4, 8196, -4>>,
      <<-827, -4, 8266, -4>>, <<-673, -4, 8564, -4>>,
      <<-627, -4, 8656, -4>>, <<-625, -4, 866, -3>>, <<-573, -4, 8764, -4>>,
      <<-375, -4, 9173, -4>>, <<-373, -4, 9177, -4>>,
      <<-346, -4, 9234, -4>>, <<-173, -4, 9609, -4>>,
      <<-127, -4, 9712, -4>>, <<-125, -4, 9716, -4>>,
      <<-123, -4, 9721, -4>>, <<-77, -4, 9824, -4>>, <<77, -4, 1018, -3>>,
      <<125, -4, 1029, -3>>, <<127, -4, 103, -2>>, <<173, -4, 1041, -3>>,
      <<346, -4, 1083, -3>>, <<373, -4, 109, -2>>, <<375, -4, 109, -2>>,
      <<573, -4, 1141, -3>>, <<625, -4, 1155, -3>>, <<627, -4, 1155, -3>>,
      <<673, -4, 1168, -3>>, <<827, -4, 121, -2>>, <<864, -4, 122, -2>>,
      <<877, -4, 1224, -3>>, <<923, -4, 1237, -3>>, <<1027, -4, 1267, -3>>,
      <<1071, -4, 128, -2>>, <<1077, -4, 1281, -3>>, <<1254, -4, 1335, -3>>,
      <<1728, -4, 1489, -3>>, <<4445, -4, 2783, -3>>,
      <<5865, -4, 3859, -3>>, <<6172, -4, 4142, -3>>,
      <<-3088, -3, 8166, -7>>, <<-3075, -3, 8414, -7>>,
      <<-3062, -3, 867, -6>>, <<-3025, -3, 9441, -7>>,
      <<-2988, -3, 1028, -6>>, <<-2975, -3, 1059, -6>>,
      <<-2938, -3, 1153, -6>>, <<-2642, -3, 228, -5>>,
      <<-2618, -3, 241, -5>>, <<-2515, -3, 3055, -6>>,
      <<-2512, -3, 3076, -6>>, <<-2494, -3, 3206, -6>>,
      <<-2491, -3, 3228, -6>>, <<-2489, -3, 3243, -6>>,
      <<-2488, -3, 3251, -6>>, <<-2475, -3, 335, -5>>,
      <<-2469, -3, 3396, -6>>, <<-2467, -3, 3412, -6>>,
      <<-2466, -3, 342, -5>>, <<-2456, -3, 3499, -6>>,
      <<-2446, -3, 3581, -6>>, <<-2444, -3, 3597, -6>>,
      <<-2438, -3, 3648, -6>>, <<-2434, -3, 3681, -6>>,
      <<-2433, -3, 369, -5>>, <<-2425, -3, 3758, -6>>,
      <<-2411, -3, 3882, -6>>, <<-2409, -3, 3899, -6>>,
      <<-2406, -3, 3926, -6>>, <<-2387, -3, 4102, -6>>,
      <<-2386, -3, 4111, -6>>, <<-531, -3, 2944, -4>>,
      <<-358, -3, 4385, -4>>, <<-142, -3, 7211, -4>>, <<-65, -3, 861, -3>>,
      <<-45, -3, 9016, -4>>, <<-25, -3, 9441, -4>>, <<-15, -3, 9661, -4>>,
      <<-5, -3, 9886, -4>>, <<5, -3, 1012, -3>>, <<15, -3, 1035, -3>>,
      <<25, -3, 1059, -3>>, <<45, -3, 1109, -3>>, <<65, -3, 1161, -3>>,
      <<142, -3, 1387, -3>>, <<358, -3, 228, -2>>, <<531, -3, 3396, -3>>,
      <<2386, -3, 2432, -1>>, <<2387, -3, 2438, -1>>,
      <<2406, -3, 2547, -1>>, <<2409, -3, 2564, -1>>,
      <<2411, -3, 2576, -1>>, <<2425, -3, 2661, -1>>, <<2433, -3, 271, 0>>,
      <<2434, -3, 2716, -1>>, <<2438, -3, 2742, -1>>, <<2444, -3, 278, 0>>,
      <<2446, -3, 2793, -1>>, <<2456, -3, 2858, -1>>,
      <<2466, -3, 2924, -1>>, <<2467, -3, 2931, -1>>,
      <<2469, -3, 2944, -1>>, <<2475, -3, 2985, -1>>,
      <<2488, -3, 3076, -1>>, <<2489, -3, 3083, -1>>,
      <<2491, -3, 3097, -1>>, <<2494, -3, 3119, -1>>,
      <<2512, -3, 3251, -1>>, <<2515, -3, 3273, -1>>, <<2618, -3, 415, 0>>,
      <<2642, -3, 4385, -1>>, <<2938, -3, 867, 0>>, <<2975, -3, 9441, -1>>,
      <<2988, -3, 9727, -1>>, <<3025, -3, 1059, 0>>, <<3062, -3, 1153, 0>>,
      <<3075, -3, 1189, 0>>, <<3088, -3, 1225, 0>>, <<-263, -2, 2344, -6>>,
      <<-258, -2, 263, -5>>, <<-247, -2, 3388, -6>>, <<-245, -2, 3548, -6>>,
      <<-241, -2, 389, -5>>, <<-9, -2, 8128, -4>>, <<-8, -2, 8318, -4>>,
      <<-7, -2, 8511, -4>>, <<-6, -2, 871, -3>>, <<-5, -2, 8913, -4>>,
      <<-4, -2, 912, -3>>, <<-3, -2, 9333, -4>>, <<-2, -2, 955, -3>>,
      <<-1, -2, 9772, -4>>, <<1, -2, 1023, -3>>, <<2, -2, 1047, -3>>,
      <<3, -2, 1072, -3>>, <<4, -2, 1096, -3>>, <<5, -2, 1122, -3>>,
      <<6, -2, 1148, -3>>, <<7, -2, 1175, -3>>, <<8, -2, 1202, -3>>,
      <<9, -2, 123, -2>>, <<241, -2, 257, 0>>, <<245, -2, 2818, -1>>,
      <<247, -2, 2951, -1>>, <<258, -2, 3802, -1>>, <<263, -2, 4266, -1>>,
      <<-25, -1, 3162, -6>>, <<-5, -1, 3162, -4>>, <<5, -1, 3162, -3>>,
      <<25, -1, 3162, -1>>, <<-3, 0, 1, -3>>, <<0, 0, 1, 0>>, <<3, 0, 1, 3>> >>

Pow10Table ==
    [k \in {<<r[1], r[2]>> : r \in Range(PowRows)} |->
        LET r == CHOOSE x \in Range(PowRows) : x[1] = k[1] /\ x[2] = k[2]
        IN  [c |-> r[3], e |-> r[4]]]

DecPow10(q) == Pow10Table[<<q.c, q.e>>]

(***************************************************************************)
(* calculate_elo (app/elo.py).  winner_elo is <<cents>>, or <<>> for the   *)
(* None that .scalar() gives for a missing row; losers_elos is a sequence  *)
(* of cents.  The result's err names the exception raised, "" for none.    *)
(***************************************************************************)
\* winner_deltas[i] = k_factor * (1 - expected)
WinnerDelta(winner_elo, loser_elo, k_factor) ==
    LET q == DecDiv(DecSub(loser_elo, winner_elo), Dec(400))
        expected == DecDiv(Dec(1), DecAdd(Dec(1), DecPow10(q)))
    IN  DecMul(k_factor, DecSub(Dec(1), expected))

RECURSIVE DecSum(_, _)
DecSum(s, n) == IF n = 0 THEN Dec(0) ELSE DecAdd(DecSum(s, n - 1), s[n])

EloError(name) ==
    [err |-> name, winner_new_elo |-> 0, losers_new_elos |-> <<>>,
     winner_delta |-> 0, losers_deltas |-> <<>>]

\* A sign slip: the loser is credited its share instead of debited.
LoserDeltaCredited(winner_delta, N) == DecDiv(winner_delta, Dec(N))

\* delta = -winner_deltas[i] / len(losers_elos)
LoserDelta(winner_delta, N) == DecDiv(DecNeg(winner_delta), Dec(N))

\* The body of calculate_elo for a winner rating and at least one loser.
EloOf(winner_elo, losers_elos, k_factor) ==
    LET k == Dec(k_factor)
        w == DecOfCents(winner_elo[1])
        N == Len(losers_elos)
        l == [i \in 1..N |-> DecOfCents(losers_elos[i])]
        winner_deltas == [i \in 1..N |-> WinnerDelta(w, l[i], k)]
        total_winner_delta == DecDiv(DecSum(winner_deltas, N), Dec(N))
        winner_new_elo == DecAdd(w, total_winner_delta)
        delta == [i \in 1..N |-> LoserDelta(winner_deltas[i], N)]
        loser_new == [i \in 1..N |-> DecAdd(l[i], delta[i])]
        rw == Quantize2(winner_new_elo)
        rl == [i \in 1..N |-> Quantize2(loser_new[i])]
        rd == Quantize2(total_winner_delta)
        rld == [i \in 1..N |-> Quantize2(delta[i])]
    IN  IF rw = <<>> \/ rd = <<>> \/ \E i \in 1..N : rl[i] = <<>> \/ rld[i] = <<>>
        THEN EloError("InvalidOperation")
        ELSE [err |-> "", winner_new_elo |-> rw[1],
              losers_new_elos |-> [i \in 1..N |-> rl[i][1]],
              winner_delta |-> rd[1],
              losers_deltas |-> [i \in 1..N |-> rld[i][1]]]

\* An empty loser list guarded against the division by zero: no exception,
\* the winner keeps its rating.
calculate_elo_EmptyGuarded(winner_elo, losers_elos, k_factor) ==
    IF winner_elo = <<>> THEN EloError("InvalidOperation")
    ELSE IF losers_elos = <<>>
    THEN LET rw == Quantize2(DecOfCents(winner_elo[1]))
         IN  IF rw = <<>> THEN EloError("InvalidOperation")
             ELSE [err |-> "", winner_new_elo |-> rw[1], losers_new_elos |-> <<>>,
                   winner_delta |-> 0, losers_deltas |-> <<>>]
    ELSE EloOf(winner_elo, losers_elos, k_factor)

\* Decimal(str(None)) raises InvalidOperation; sum([]) / len([]) raises
\* ZeroDivisionError.
calculate_elo(winner_elo, losers_elos, k_factor) ==
    IF winner_elo = <<>> THEN EloError("InvalidOperation")
    ELSE IF losers_elos = <<>> THEN EloError("ZeroDivisionError")
    ELSE EloOf(winner_elo, losers_elos, k_factor)

(***************************************************************************)
(* The store (app/db.py): players, games and game_players, as committed.   *)
(* A connection with an open transaction holds its uncommitted writes in   *)
(* conn[p].tx; lock is the connection holding SQLite's write lock, or 0.   *)
(***************************************************************************)
Conns == {1, 2}

MainConn == CHOOSE p \in Conns : \A q \in Conns : p <= q

SeqsUpTo(S, n) == UNION {[1..m -> S] : m \in 0..n}

Perms(S) == {f \in [1..Cardinality(S) -> S] : \A i, j \in DOMAIN f : f[i] = f[j] => i = j}

Min(a, b) == IF a < b THEN a ELSE b

\* The fixtures of tests/test_elo.py: three players, one commander, one game
\* with all three as participants at elo_change 0.
Names == <<"Alice", "Bob", "Charlie">>

PlayerIds == DOMAIN Names

NoSuchPlayer == Len(Names) + 1

PlayerIdArgs == PlayerIds \cup {NoSuchPlayer}

\* Ratings the players table holds when a run starts, in cents: the 1000 of
\* the fixtures and of form_add_player, and a table of low ratings (elo is a
\* Float column, any rating may be stored; below 100 the results of
\* calculate_elo fit the context precision).
InitElos == {<<100000, 100000, 100000>>, <<1000, 2000, 3000>>}

IdleConn == [pc |-> "idle"]

\* No Streamlit session takes part.
NoUi == <<>>

Init ==
    /\ \E t \in InitElos :
          players = [i \in PlayerIds |-> [name |-> Names[i], elo |-> t[i]]]
    /\ games = [g \in {1} |-> [winner_id |-> 1]]
    /\ game_players = [r \in {1} \X PlayerIds |-> 0]
    /\ conn = [p \in Conns |-> IdleConn]
    /\ lock = 0
    /\ ncalls = 0
    /\ calc = <<>>
    /\ ui = NoUi

NoSuchGame == Cardinality(DOMAIN games) + 1

Store == [players |-> players, game_players |-> game_players]

(***************************************************************************)
(* update_elos_in_db (app/elo.py), one action per statement.               *)
(***************************************************************************)
\* with engine.begin() as conn:
UBegin(p, game_id, winner_id, loser_ids) ==
    /\ conn[p].pc \in {"idle", "done", "failed"}
    /\ ncalls < MaxCalls
    /\ ncalls' = ncalls + 1
    /\ conn' = [conn EXCEPT ![p] =
                  [pc |-> "sel_winner", op |-> "update_elos_in_db",
                   game_id |-> game_id, winner_id |-> winner_id,
                   loser_ids |-> loser_ids, k_factor |-> K_FACTOR,
                   pre |-> Store]]
    /\ UNCHANGED <<players, games, game_players, lock, calc, ui>>

\* SELECT elo FROM players WHERE id = :id ... .scalar()
USelectWinner(p) ==
    /\ conn[p].pc = "sel_winner"
    /\ conn' = [conn EXCEPT ![p] =
                  [pc |-> "sel_losers", winner_elo |->
                      IF conn[p].winner_id \in DOMAIN players
                      THEN <<players[conn[p].winner_id].elo>> ELSE <<>>]
                  @@ conn[p]]
    /\ UNCHANGED <<players, games, game_players, lock, ncalls, calc, ui>>

\* SELECT elo FROM players WHERE id IN :ids ... .fetchall(): one row per
\* player whose id is among ids, in the order SQLite walks the primary key
\* (ascending id), whatever the order and the repetitions of ids.  A driver
\* that refuses the tuple bound to :ids raises instead: that outcome is UFail
\* at this statement.
SelectIn(P, ids) ==
    LET rows == Range(ids) \cap DOMAIN P
        byId == CHOOSE f \in Perms(rows) : \A i, j \in DOMAIN f : i < j => f[i] < f[j]
    IN  [i \in 1..Cardinality(rows) |-> P[byId[i]].elo]

USelectLosers(p) ==
    /\ conn[p].pc = "sel_losers"
    /\ conn' = [conn EXCEPT ![p] =
                  [pc |-> "calc",
                   losers_elos |-> SelectIn(players, conn[p].loser_ids)] @@ conn[p]]
    /\ UNCHANGED <<players, games, game_players, lock, ncalls, calc, ui>>

\* An exception leaves the with block: the transaction is rolled back.
Rollback(c, name) ==
    [pc |-> "failed", err |-> name, op |-> c.op, game_id |-> c.game_id,
     winner_id |-> c.winner_id, loser_ids |-> c.loser_ids,
     k_factor |-> c.k_factor, pre |-> c.pre,
     nupd |-> IF c.pc = "upd" THEN c.nupd ELSE 0]

\* result = calculate_elo(winner_elo, losers_elos, k_factor)
UCalculate(p) ==
    /\ conn[p].pc = "calc"
    /\ LET result == calculate_elo(conn[p].winner_elo, conn[p].losers_elos,
                                   conn[p].k_factor)
       IN  conn' = [conn EXCEPT ![p] =
                      IF result.err # "" THEN Rollback(conn[p], result.err)
                      ELSE [pc |-> "upd", result |-> result, nupd |-> 0,
                            tx |-> <<>>] @@ conn[p]]
    /\ UNCHANGED <<players, games, game_players, lock, ncalls, calc, ui>>

\* zip(loser_ids, result.losers_new_elos) stops at the shorter list.
ZipLen(c) == Min(Len(c.loser_ids), Len(c.result.losers_new_elos))

\* The UPDATE statements in the order the code issues them.
UpdStmts(c) ==
    <<[t |-> "players", id |-> c.winner_id, v |-> c.result.winner_new_elo]>>
    \o [i \in 1..ZipLen(c) |->
          [t |-> "players", id |-> c.loser_ids[i], v |-> c.result.losers_new_elos[i]]]
    \o <<[t |-> "game_players", id |-> c.winner_id, v |-> c.result.winner_delta]>>
    \o [i \in 1..ZipLen(c) |->
          [t |-> "game_players", id |-> c.loser_ids[i], v |-> c.result.losers_deltas[i]]]

\* The UPDATE of game_players without its game_id condition: the player's
\* rows of every game are written.
ApplyStmtAnyGame(view, st, game_id) ==
    IF st.t = "players"
    THEN [view EXCEPT !.players =
            [i \in DOMAIN view.players |->
                IF i = st.id THEN [view.players[i] EXCEPT !.elo = st.v]
                ELSE view.players[i]]]
    ELSE [view EXCEPT !.game_players =
            [r \in DOMAIN view.game_players |->
                IF r[2] = st.id THEN st.v ELSE view.game_players[r]]]

\* UPDATE ... WHERE ...: every row matching the WHERE clause, maybe none.
ApplyStmt(view, st, game_id) ==
    IF st.t = "players"
    THEN [view EXCEPT !.players =
            [i \in DOMAIN view.players |->
                IF i = st.id THEN [view.players[i] EXCEPT !.elo = st.v]
                ELSE view.players[i]]]
    ELSE [view EXCEPT !.game_players =
            [r \in DOMAIN view.game_players |->
                IF r = <<game_id, st.id>> THEN st.v ELSE view.game_players[r]]]

\* The connection's view: the committed store with its own writes applied.
View(c) == IF c.tx = <<>> THEN Store ELSE c.tx[1]

\* conn.execute(UPDATE ...): the first write takes the write lock.
UUpdate(p) ==
    /\ conn[p].pc = "upd"
    /\ conn[p].nupd < Len(UpdStmts(conn[p]))
    /\ lock \in {0, p}
    /\ lock' = p
    /\ conn' = [conn EXCEPT ![p] =
                  [nupd |-> conn[p].nupd + 1,
                   tx |-> <<ApplyStmt(View(conn[p]),
                                      UpdStmts(conn[p])[conn[p].nupd + 1],
                                      conn[p].game_id)>>] @@ conn[p]]
    /\ UNCHANGED <<players, games, game_players, ncalls, calc, ui>>

\* {winner_id: winner_delta, **{loser_id: delta ...}}: a later key wins.
RetMap(c) ==
    [id \in {c.winner_id} \cup {c.loser_ids[i] : i \in 1..ZipLen(c)} |->
        IF \E i \in 1..ZipLen(c) : c.loser_ids[i] = id
        THEN LET last == CHOOSE i \in 1..ZipLen(c) :
                            /\ c.loser_ids[i] = id
                            /\ \A j \in 1..ZipLen(c) : c.loser_ids[j] = id => j <= i
             IN  c.result.losers_deltas[last]
        ELSE c.result.winner_delta]

\* return ...: the with block ends and the transaction commits.
UCommit(p) ==
    /\ conn[p].pc = "upd"
    /\ conn[p].nupd = Len(UpdStmts(conn[p]))
    /\ lock = p
    /\ players' = conn[p].tx[1].players
    /\ game_players' = conn[p].tx[1].game_players
    /\ lock' = 0
    /\ conn' = [conn EXCEPT ![p] =
                  [pc |-> "done", ret |-> RetMap(conn[p]), op |-> conn[p].op,
                   game_id |-> conn[p].game_id, winner_id |-> conn[p].winner_id,
                   loser_ids |-> conn[p].loser_ids,
                   k_factor |-> conn[p].k_factor, pre |-> conn[p].pre,
                   result |-> conn[p].result]]
    /\ UNCHANGED <<games, ncalls, calc, ui>>

\* A failure that keeps what was written so far, as a connection in
\* autocommit mode would.
UFailPartial(p) ==
    /\ conn[p].pc \in {"sel_winner", "sel_losers", "upd"}
    /\ conn' = [conn EXCEPT ![p] = Rollback(conn[p], "OperationalError")]
    /\ lock' = IF lock = p THEN 0 ELSE lock
    /\ players' = IF conn[p].pc = "upd" THEN View(conn[p]).players ELSE players
    /\ game_players' = IF conn[p].pc = "upd" THEN View(conn[p]).game_players
                       ELSE game_players
    /\ UNCHANGED <<games, ncalls, calc, ui>>

\* A read or a write fails in the store (I/O error, lock timeout): the
\* exception leaves the with block and the transaction is rolled back.
UFail(p) ==
    /\ conn[p].pc \in {"sel_winner", "sel_losers", "upd"}
    /\ conn' = [conn EXCEPT ![p] = Rollback(conn[p], "OperationalError")]
    /\ lock' = IF lock = p THEN 0 ELSE lock
    /\ UNCHANGED <<players, games, game_players, ncalls, calc, ui>>

\* The whole call as one step on a store S, as it runs when nothing fails
\* and no other connection commits meanwhile: the store it leaves.
RECURSIVE ApplyStmts(_, _, _, _)
ApplyStmts(view, stmts, n, game_id) ==
    IF n = 0 THEN view
    ELSE ApplyStmt(ApplyStmts(view, stmts, n - 1, game_id), stmts[n], game_id)

ApplyCall(S, c) ==
    LET winner_elo == IF c.winner_id \in DOMAIN S.players
                      THEN <<S.players[c.winner_id].elo>> ELSE <<>>
        result == calculate_elo(winner_elo, SelectIn(S.players, c.loser_ids),
                                c.k_factor)
        cr == [result |-> result] @@ c
    IN  IF result.err # "" THEN S
        ELSE ApplyStmts(S, UpdStmts(cr), Len(UpdStmts(cr)), c.game_id)

update_elos_in_db(p) ==
    \/ \E g \in DOMAIN games \cup {NoSuchGame}, w \in PlayerIdArgs,
          ls \in SeqsUpTo(PlayerIdArgs, MaxLosers) : UBegin(p, g, w, ls)
    \/ USelectWinner(p)
    \/ USelectLosers(p)
    \/ UCalculate(p)
    \/ UUpdate(p)
    \/ UCommit(p)
    \/ UFail(p)

Next == update_elos_in_db(MainConn)

Spec == Init /\ [][Next]_vars

(***************************************************************************)
(* Two connections, each running update_elos_in_db once, for its own game: *)
(* the sessions of the application share one engine, and the statements of *)
(* their calls interleave.  A SELECT outside a transaction takes no lock   *)
(* that outlives it; the first UPDATE takes the write lock (UUpdate).      *)
(***************************************************************************)
GameOf(p) == p

InitConc ==
    /\ \E t \in InitElos :
          players = [i \in PlayerIds |-> [name |-> Names[i], elo |-> t[i]]]
    /\ games = [g \in {GameOf(p) : p \in Conns} |-> [winner_id |-> 1]]
    /\ game_players = [r \in {GameOf(p) : p \in Conns} \X PlayerIds |-> 0]
    /\ conn = [p \in Conns |-> IdleConn]
    /\ lock = 0
    /\ ncalls = 0
    /\ calc = <<>>
    /\ ui = NoUi

\* Loser lists the submission flow passes: existing players other than the
\* winner, each once.
ValidLosers(winner_id) ==
    {ls \in SeqsUpTo(PlayerIds \ {winner_id}, MaxLosers) :
        /\ ls # <<>>
        /\ \A i, j \in DOMAIN ls : ls[i] = ls[j] => i = j}

NextConc ==
    \E p \in Conns :
        \/ /\ conn[p].pc = "idle"
           /\ \E w \in PlayerIds : \E ls \in ValidLosers(w) : UBegin(p, GameOf(p), w, ls)
        \/ USelectWinner(p)
        \/ USelectLosers(p)
        \/ UCalculate(p)
        \/ UUpdate(p)
        \/ UCommit(p)
        \/ UFail(p)

SpecConc == InitConc /\ [][NextConc]_vars

(***************************************************************************)
(* The pure function on its own: inputs drawn from bounded sets.           *)
(***************************************************************************)
\* Ratings in cents: low ratings and those of tests/test_elo.py (1000, 1200,
\* and the 1234.56, 987.65, 1056.78 of test_elo_precision).
CalcElos == {0, 500, 1000, 2500, 100000, 120000, 123456, 98765, 105678}

KFactors == {16, 32, 40}

InitCalc ==
    /\ players = <<>>
    /\ games = <<>>
    /\ game_players = <<>>
    /\ conn = [p \in Conns |-> IdleConn]
    /\ lock = 0
    /\ ncalls = 0
    /\ \E w \in CalcElos, ls \in SeqsUpTo(CalcElos, MaxLosers) \ {<<>>}, k \in KFactors :
          calc = [winner_elo |-> w, losers_elos |-> ls, k_factor |-> k,
                  result |-> <<>>]
    /\ ui = NoUi

Calculate ==
    /\ calc.result = <<>>
    /\ calc' = [calc EXCEPT !.result =
                   <<calculate_elo(<<calc.winner_elo>>, calc.losers_elos, calc.k_factor)>>]
    /\ UNCHANGED <<players, games, game_players, conn, lock, ncalls, ui>>

NextCalc == Calculate

SpecCalc == InitCalc /\ [][NextCalc]_vars

(***************************************************************************)
(* submit_game (app/game.py), one action per statement.  The lookups and   *)
(* the INSERTs run on one connection whose transaction conn.commit() ends; *)
(* update_elos_in_db then runs in a transaction of its own.                *)
(***************************************************************************)
MaxSubmits == 2        \* submit_game invocations explored per run
MaxPlayers == 3        \* most entries of a commanders mapping explored
MaxListed == 2         \* longest players list explored

\* The commanders table: the one commander of the fixtures of test_elo.py.
Commanders == <<"Test Commander">>

NameArgs == Range(Names) \cup {"Nobody"}

CommanderArgs == Range(Commanders) \cup {"No Such Commander"}

\* A commanders mapping, as the sequence of its (player, commander) items in
\* insertion order: a dict holds each key once.
CommanderDicts ==
    {d \in SeqsUpTo(NameArgs \X CommanderArgs, MaxPlayers) :
        \A i, j \in DOMAIN d : d[i][1] = d[j][1] => i = j}

\* The two checks in the other order: the winner is looked for first.
validate_game_submission_WinnerFirst(listed, winner) ==
    IF winner \notin Range(listed) THEN "Winner must be one of the selected players"
    ELSE IF Len(listed) < 2 THEN "At least 2 players required"
    ELSE ""

\* The error message, "" for None.
validate_game_submission(listed, winner) ==
    IF Len(listed) < 2 THEN "At least 2 players required"
    ELSE IF winner \notin Range(listed) THEN "Winner must be one of the selected players"
    ELSE ""

\* SELECT id FROM ... WHERE name = :name ... .scalar(): <<id>>, or <<>> for
\* the None of a name that has no row.
IdOfName(table, name) ==
    IF \E i \in DOMAIN table : table[i] = name
    THEN <<CHOOSE i \in DOMAIN table : table[i] = name>>
    ELSE <<>>

PlayerNames == [i \in DOMAIN players |-> players[i].name]

\* The tests/test_game.py fixture: three players, no game; one commander.
InitSubmit ==
    /\ \E t \in InitElos :
          players = [i \in PlayerIds |-> [name |-> Names[i], elo |-> t[i]]]
    /\ games = <<>>
    /\ game_players = <<>>
    /\ conn = [p \in Conns |-> IdleConn]
    /\ lock = 0
    /\ ncalls = 0
    /\ calc = <<>>
    /\ ui = NoUi

\* An exception before conn.commit(): the connection closes and what it
\* wrote is rolled back.
SRollback(c, name) ==
    [pc |-> "failed", err |-> name, op |-> "submit_game", pre |-> c.pre,
     pre_games |-> c.pre_games]

\* error = validate_game_submission(players, winner); raise ValueError(error),
\* or with engine.connect() as conn:
SBegin(p, listed, commanders, winner) ==
    /\ conn[p].pc \in {"idle", "done", "failed"}
    /\ ncalls < MaxSubmits
    /\ ncalls' = ncalls + 1
    /\ LET c == [pc |-> "s_lookup", op |-> "submit_game", listed |-> listed,
                 commanders |-> commanders, winner |-> winner,
                 pre |-> Store, pre_games |-> games]
           error == validate_game_submission(listed, winner)
       IN  conn' = [conn EXCEPT ![p] =
                      IF error # ""
                      THEN [msg |-> error, listed |-> listed, winner |-> winner]
                           @@ SRollback(c, "ValueError")
                      ELSE c]
    /\ UNCHANGED <<players, games, game_players, lock, calc, ui>>

\* The record c without its field f.
Forget(c, f) == [x \in DOMAIN c \ {f} |-> c[x]]

\* winner_id, player_ids[player] and commander_ids[player]: the SELECTs.  The
\* players list is not read again after the validation.
SLookup(p) ==
    /\ conn[p].pc = "s_lookup"
    /\ LET d == conn[p].commanders
       IN  conn' = [conn EXCEPT ![p] =
                      [pc |-> "s_ins_game",
                       winner_id |-> IdOfName(PlayerNames, conn[p].winner),
                       player_ids |-> [i \in DOMAIN d |-> IdOfName(PlayerNames, d[i][1])],
                       commander_ids |-> [i \in DOMAIN d |-> IdOfName(Commanders, d[i][2])]]
                      @@ Forget(conn[p], "listed")]
    /\ UNCHANGED <<players, games, game_players, lock, ncalls, calc, ui>>

\* The INSERT of the game row committed at once, as a connection in
\* autocommit mode would.
SInsertGameAutocommit(p) ==
    /\ conn[p].pc = "s_ins_game"
    /\ lock \in {0, p}
    /\ LET c == conn[p]
           d == c.commanders
           keyed == \E i \in DOMAIN d : d[i][1] = c.winner
           w == CHOOSE i \in DOMAIN d : d[i][1] = c.winner
           game_id == Cardinality(DOMAIN games) + 1
           row == game_id :> [winner_id |-> c.winner_id[1]]
       IN  IF ~keyed \/ c.winner_id = <<>> \/ c.commander_ids[w] = <<>>
           THEN /\ conn' = [conn EXCEPT ![p] = SRollback(c, "IntegrityError")]
                /\ lock' = IF lock = p THEN 0 ELSE lock
                /\ games' = games
           ELSE /\ conn' = [conn EXCEPT ![p] =
                              [pc |-> "s_ins_players", game_id |-> game_id, nins |-> 0,
                               tx |-> <<[games |-> games @@ row,
                                         game_players |-> game_players]>>] @@ c]
                /\ lock' = p
                /\ games' = games @@ row
    /\ UNCHANGED <<players, game_players, ncalls, calc, ui>>

\* INSERT INTO games ... .lastrowid: commander_ids[winner] raises KeyError
\* when the winner is no key of commanders; winner_id and
\* winner_commander_id are NOT NULL.
SInsertGame(p) ==
    /\ conn[p].pc = "s_ins_game"
    /\ lock \in {0, p}
    /\ LET c == conn[p]
           d == c.commanders
           keyed == \E i \in DOMAIN d : d[i][1] = c.winner
           w == CHOOSE i \in DOMAIN d : d[i][1] = c.winner
           game_id == Cardinality(DOMAIN games) + 1
       IN  IF ~keyed
           THEN /\ conn' = [conn EXCEPT ![p] = SRollback(c, "KeyError")]
                /\ lock' = IF lock = p THEN 0 ELSE lock
           ELSE IF c.winner_id = <<>> \/ c.commander_ids[w] = <<>>
           THEN /\ conn' = [conn EXCEPT ![p] = SRollback(c, "IntegrityError")]
                /\ lock' = IF lock = p THEN 0 ELSE lock
           ELSE /\ conn' = [conn EXCEPT ![p] =
                              [pc |-> "s_ins_players", game_id |-> game_id, nins |-> 0,
                               tx |-> <<[games |-> games @@ (game_id :> [winner_id |-> c.winner_id[1]]),
                                         game_players |-> game_players]>>] @@ c]
                /\ lock' = p
    /\ UNCHANGED <<players, games, game_players, ncalls, calc, ui>>

\* The participant rows written for the losers only: the winner's entry is
\* passed over.
SInsertPlayerLosersOnly(p) ==
    /\ conn[p].pc = "s_ins_players"
    /\ conn[p].nins < Len(conn[p].commanders)
    /\ lock = p
    /\ LET c == conn[p]
           i == c.nins + 1
       IN  IF c.player_ids[i] = <<>> \/ c.commander_ids[i] = <<>>
           THEN /\ conn' = [conn EXCEPT ![p] = SRollback(c, "IntegrityError")]
                /\ lock' = 0
           ELSE /\ conn' = [conn EXCEPT ![p] =
                              [nins |-> i,
                               tx |-> <<IF c.player_ids[i] = c.winner_id THEN c.tx[1]
                                        ELSE [c.tx[1] EXCEPT !.game_players =
                                                @ @@ (<<c.game_id, c.player_ids[i][1]>> :> 0)]>>]
                              @@ c]
                /\ lock' = lock
    /\ UNCHANGED <<players, games, game_players, ncalls, calc, ui>>

\* The participant rows written with an elo_change other than 0.
SInsertPlayerSeeded(p) ==
    /\ conn[p].pc = "s_ins_players"
    /\ conn[p].nins < Len(conn[p].commanders)
    /\ lock = p
    /\ LET c == conn[p]
           i == c.nins + 1
       IN  IF c.player_ids[i] = <<>> \/ c.commander_ids[i] = <<>>
           THEN /\ conn' = [conn EXCEPT ![p] = SRollback(c, "IntegrityError")]
                /\ lock' = 0
           ELSE /\ conn' = [conn EXCEPT ![p] =
                              [nins |-> i,
                               tx |-> <<[c.tx[1] EXCEPT !.game_players =
                                            @ @@ (<<c.game_id, c.player_ids[i][1]>> :> 100)]>>]
                              @@ c]
                /\ lock' = lock
    /\ UNCHANGED <<players, games, game_players, ncalls, calc, ui>>

\* INSERT INTO game_players ... VALUES (:game_id, :player_id, :commander_id,
\* 0), for the next player in commanders: player_id and commander_id are
\* NOT NULL.
SInsertPlayer(p) ==
    /\ conn[p].pc = "s_ins_players"
    /\ conn[p].nins < Len(conn[p].commanders)
    /\ lock = p
    /\ LET c == conn[p]
           i == c.nins + 1
       IN  IF c.player_ids[i] = <<>> \/ c.commander_ids[i] = <<>>
           THEN /\ conn' = [conn EXCEPT ![p] = SRollback(c, "IntegrityError")]
                /\ lock' = 0
           ELSE /\ conn' = [conn EXCEPT ![p] =
                              [nins |-> i,
                               tx |-> <<[c.tx[1] EXCEPT !.game_players =
                                            @ @@ (<<c.game_id, c.player_ids[i][1]>> :> 0)]>>]
                              @@ c]
                /\ lock' = lock
    /\ UNCHANGED <<players, games, game_players, ncalls, calc, ui>>

\* loser_ids = [pid for pid in player_ids.values() if pid != winner_id]
LoserIdsOf(c) ==
    LET ids == [i \in DOMAIN c.player_ids |-> c.player_ids[i][1]]
    IN  SelectSeq(ids, LAMBDA x : x # c.winner_id[1])

\* conn.commit(), and update_elos_in_db(engine, game_id, winner_id,
\* loser_ids) opens its transaction.
SCommit(p) ==
    /\ conn[p].pc = "s_ins_players"
    /\ conn[p].nins = Len(conn[p].commanders)
    /\ lock = p
    /\ games' = conn[p].tx[1].games
    /\ game_players' = conn[p].tx[1].game_players
    /\ lock' = 0
    /\ conn' = [conn EXCEPT ![p] =
                  [pc |-> "sel_winner", op |-> "submit_game",
                   game_id |-> conn[p].game_id, winner_id |-> conn[p].winner_id[1],
                   loser_ids |-> LoserIdsOf(conn[p]), k_factor |-> K_FACTOR,
                   pre |-> [players |-> players,
                            game_players |-> conn[p].tx[1].game_players]]]
    /\ UNCHANGED <<players, ncalls, calc, ui>>

\* A read or a write of submit_game fails in the store before the commit.
SFail(p) ==
    /\ conn[p].pc \in {"s_lookup", "s_ins_game", "s_ins_players"}
    /\ conn' = [conn EXCEPT ![p] = SRollback(conn[p], "OperationalError")]
    /\ lock' = IF lock = p THEN 0 ELSE lock
    /\ UNCHANGED <<players, games, game_players, ncalls, calc, ui>>

submit_game(p) ==
    \/ /\ conn[p].pc \in {"idle", "done", "failed"}
       /\ \E listed \in SeqsUpTo(NameArgs, MaxListed), d \in CommanderDicts,
             winner \in NameArgs : SBegin(p, listed, d, winner)
    \/ SLookup(p)
    \/ SInsertGame(p)
    \/ SInsertPlayer(p)
    \/ SCommit(p)
    \/ SFail(p)
    \/ USelectWinner(p)
    \/ USelectLosers(p)
    \/ UCalculate(p)
    \/ UUpdate(p)
    \/ UCommit(p)
    \/ UFail(p)

NextSubmit == submit_game(MainConn)

SpecSubmit == InitSubmit /\ [][NextSubmit]_vars

(***************************************************************************)
(* The password gate (app/auth.py) and the page switch of main()           *)
(* (app/run.py).  ui is the Streamlit side of one browser session:         *)
(* session_state (a key not yet set holds <<>>, a key set to v holds       *)
(* <<v>>), the clock time.time() reads, the configured password, and what  *)
(* the last run of the script did.  A password is the sequence of the      *)
(* code points of its characters.                                          *)
(***************************************************************************)
MaxPwLen == 2          \* longest password typed
MaxHours == 10         \* hours the clock advances in a run of the model

SessionLifetime == 8 * 3600

TickSeconds == 60 * 60

\* time.time() when the model starts: later than a lifetime after 0, as
\* test_is_session_valid has it ("very old session").
ClockStart == SessionLifetime + TickSeconds

MaxClock == ClockStart + MaxHours * TickSeconds

PwChars == {97, 98}

Passwords == SeqsUpTo(PwChars, MaxPwLen)

\* get_password(): <<>> for None and for the empty string.
StoredPws == {<<>>, <<97, 98>>}

RECURSIVE BitXor(_, _)
BitXor(a, b) ==
    IF a = 0 /\ b = 0 THEN 0
    ELSE (((a % 2) + (b % 2)) % 2) + 2 * BitXor(a \div 2, b \div 2)

RECURSIVE BitOr(_, _)
BitOr(a, b) ==
    IF a = 0 /\ b = 0 THEN 0
    ELSE (IF a % 2 = 1 \/ b % 2 = 1 THEN 1 ELSE 0) + 2 * BitOr(a \div 2, b \div 2)

\* result |= ord(a) ^ ord(b), over zip(password, stored_pw)
RECURSIVE XorFold(_, _, _)
XorFold(password, stored_pw, n) ==
    IF n = 0 THEN 0
    ELSE BitOr(XorFold(password, stored_pw, n - 1), BitXor(password[n], stored_pw[n]))

\* check_password: the verdict and the errors it shows.
check_password(stored_pw, password) ==
    IF stored_pw = <<>> THEN [ok |-> FALSE, errors |-> <<"Password not configured">>]
    ELSE IF Len(password) # Len(stored_pw) THEN [ok |-> FALSE, errors |-> <<>>]
    ELSE [ok |-> XorFold(password, stored_pw, Len(password)) = 0, errors |-> <<>>]

EmptySession == [admin |-> <<>>, authenticated |-> <<>>, login_time |-> <<>>]

init_session(ss) ==
    [ss EXCEPT !.authenticated = IF @ = <<>> THEN <<FALSE>> ELSE @,
               !.login_time = IF @ = <<>> THEN <<0>> ELSE @]

\* The lifetime test with the bound included: a session of exactly 8 hours
\* still counts.
is_session_valid_Inclusive(ss, now) ==
    IF ss.authenticated \in {<<>>, <<FALSE>>} THEN FALSE
    ELSE now - ss.login_time[1] <= SessionLifetime

\* st.session_state.get("authenticated") is None or False: not valid.
is_session_valid(ss, now) ==
    IF ss.authenticated \in {<<>>, <<FALSE>>} THEN FALSE
    ELSE now - ss.login_time[1] < SessionLifetime

\* login_form(): ret is the value returned, or "rerun" when st.rerun() left
\* the call by its exception.  st.rerun() outside a script run (ctx FALSE:
\* the function called directly, as the tests do) does nothing, and the
\* call goes on to return False.
login_form(ss, now, stored_pw, ctx, submitted, password) ==
    LET s1 == init_session(ss)
        cp == check_password(stored_pw, password)
    IN  IF is_session_valid(s1, now)
        THEN [ss |-> s1, ret |-> "True", errors |-> <<>>]
        ELSE IF ~submitted
        THEN [ss |-> s1, ret |-> "False", errors |-> <<>>]
        ELSE IF cp.ok
        THEN [ss |-> [s1 EXCEPT !.authenticated = <<TRUE>>, !.login_time = <<now>>],
              ret |-> IF ctx THEN "rerun" ELSE "False", errors |-> cp.errors]
        ELSE [ss |-> s1, ret |-> "False",
              errors |-> cp.errors \o <<"Incorrect password">>]

\* A logout button that leaves the session as it is.
logout_button_NoReset(ss, clicked) ==
    [ss |-> ss, rerun |-> ss.authenticated = <<TRUE>> /\ clicked]

\* logout_button(): the button is there for an authenticated session;
\* clicked, it resets the session and asks for a rerun.
logout_button(ss, clicked) ==
    IF ss.authenticated = <<TRUE>> /\ clicked
    THEN [ss |-> [ss EXCEPT !.authenticated = <<FALSE>>, !.login_time = <<0>>],
          rerun |-> TRUE]
    ELSE [ss |-> ss, rerun |-> FALSE]

Events == {"none", "go_admin", "login", "logout"}

InitAuth ==
    /\ players = <<>>
    /\ games = <<>>
    /\ game_players = <<>>
    /\ conn = [p \in Conns |-> IdleConn]
    /\ lock = 0
    /\ ncalls = 0
    /\ calc = <<>>
    /\ \E pw \in StoredPws, ctx \in BOOLEAN :
          ui = [session_state |-> EmptySession, now |-> ClockStart,
                stored_pw |-> pw, script_ctx |-> ctx, page |-> "none",
                event |-> "none", password |-> <<>>, ret |-> "none",
                errors |-> <<>>, reached_admin |-> FALSE, good_login |-> -1,
                rerun |-> FALSE]

\* One run of main() in the session.  event is the widget the user acted on
\* in the page the last run rendered; a rerun asked for by st.rerun() runs
\* the script again at once, with no event.  good_login is the time of the
\* last submission of the correct password that no logout followed, -1 when
\* there is none.
main(event, password) ==
    /\ ui # NoUi
    /\ ui.rerun => event = "none"
    /\ event = "go_admin" => ui.page = "public"
    /\ event = "login" => ui.page = "login"
    /\ event = "logout" => ui.page = "admin"
    /\ event # "login" => password = <<>>
    /\ LET s0 == ui.session_state
           s1 == [s0 EXCEPT !.admin = IF @ = <<>> THEN <<FALSE>> ELSE @]
           lf == login_form(s1, ui.now, ui.stored_pw, ui.script_ctx,
                            event = "login", password)
           lo == logout_button(lf.ss, event = "logout")
           out == [ui EXCEPT !.event = event, !.password = password]
       IN  ui' =
             IF s1.admin = <<FALSE>>
             THEN \* the public pages; "Go to Admin Dashboard" sets admin
                  [out EXCEPT !.page = "public", !.ret = "none", !.errors = <<>>,
                              !.reached_admin = FALSE,
                              !.session_state =
                                 IF event = "go_admin" THEN [s1 EXCEPT !.admin = <<TRUE>>]
                                 ELSE s1,
                              !.rerun = event = "go_admin" /\ ui.script_ctx]
             ELSE IF lf.ret # "True"
             THEN \* login_form() did not return True: st.stop(), or the rerun
                  [out EXCEPT !.page = "login", !.ret = lf.ret, !.errors = lf.errors,
                              !.reached_admin = FALSE,
                              !.session_state = lf.ss,
                              !.good_login =
                                 IF event = "login" /\ check_password(ui.stored_pw, password).ok
                                 THEN ui.now ELSE @,
                              !.rerun = lf.ret = "rerun"]
             ELSE \* show_admin_page(engine)
                  [out EXCEPT !.page = "admin", !.ret = lf.ret, !.errors = lf.errors,
                              !.reached_admin = TRUE,
                              !.session_state = lo.ss,
                              !.good_login = IF event = "logout" THEN -1 ELSE @,
                              !.rerun = lo.rerun /\ ui.script_ctx]
    /\ UNCHANGED <<players, games, game_players, conn, lock, ncalls, calc>>

\* Time passes between two runs.
Tick ==
    /\ ui # NoUi
    /\ ~ui.rerun
    /\ ui.now < MaxClock
    /\ ui' = [ui EXCEPT !.now = @ + TickSeconds]
    /\ UNCHANGED <<players, games, game_players, conn, lock, ncalls, calc>>

\* The browser opens a new session: session_state starts empty.
NewSession ==
    /\ ui # NoUi
    /\ ui.session_state # EmptySession
    /\ ui' = [ui EXCEPT !.session_state = EmptySession, !.page = "none",
                        !.event = "none", !.password = <<>>, !.ret = "none",
                        !.errors = <<>>, !.reached_admin = FALSE,
                        !.good_login = -1, !.rerun = FALSE]
    /\ UNCHANGED <<players, games, game_players, conn, lock, ncalls, calc>>

NextAuth ==
    \/ \E event \in Events, password \in Passwords : main(event, password)
    \/ Tick
    \/ NewSession

SpecAuth == InitAuth /\ [][NextAuth]_vars

(***************************************************************************)
(* The admin forms (app/admin.py), the leaderboard query (app/db.py) and   *)
(* the game form (app/game.py) over one store.  The forms run between the  *)
(* submissions, not inside them.  ui holds what the last form showed.      *)
(***************************************************************************)
MaxAdminOps == 3       \* admin forms and queries explored per run

\* Names typed into the add-player form: the empty input and the names of
\* the fixtures.
AddNames == Range(Names) \cup {""}

\* lastrowid of an INSERT into players: one more than the largest id.
NewPlayerId ==
    IF DOMAIN players = {} THEN 1
    ELSE 1 + CHOOSE i \in DOMAIN players : \A j \in DOMAIN players : j <= i

\* A games row or a game_players row refers to the player.
Referenced(id) ==
    \/ \E g \in DOMAIN games : games[g].winner_id = id
    \/ \E r \in DOMAIN game_players : r[2] = id

AdminIdle ==
    /\ ui # NoUi
    /\ ui.nops < MaxAdminOps
    /\ \A p \in Conns : conn[p].pc \in {"idle", "done", "failed"}

\* The store starts empty, or as a fixture of players inserted with
\* ratings of their own and no game.  foreign_keys says whether the
\* connection the forms get enforces foreign keys: init_db turns the
\* pragma on for the connection it holds, not for the database.
InitAdmin ==
    /\ games = <<>>
    /\ game_players = <<>>
    /\ conn = [p \in Conns |-> IdleConn]
    /\ lock = 0
    /\ ncalls = 0
    /\ calc = <<>>
    /\ \E fixture \in BOOLEAN, fk \in BOOLEAN :
          /\ players = IF fixture
                       THEN [i \in PlayerIds |-> [name |-> Names[i], elo |-> 1000 * i]]
                       ELSE <<>>
          /\ ui = [op |-> "none", arg |-> <<>>, fixture |-> fixture,
                   foreign_keys |-> fk, nops |-> 0, msg |-> <<>>, rows |-> <<>>]

\* The add-player form submitted with an empty name accepted: the INSERT
\* is issued for it.
form_add_player_AcceptEmpty(name) ==
    /\ AdminIdle
    /\ LET dup == \E i \in DOMAIN players : players[i].name = name
       IN  /\ players' = IF dup THEN players
                         ELSE players @@ (NewPlayerId :> [name |-> name, elo |-> 100000])
           /\ ui' = [ui EXCEPT !.op = "form_add_player", !.arg = name, !.nops = @ + 1,
                        !.rows = <<>>,
                        !.msg = IF dup THEN <<"error", "Player '", name, "' already exists">>
                                ELSE <<"success", "Added player: ", name>>]
    /\ UNCHANGED <<games, game_players, conn, lock, ncalls, calc>>

\* The add-player form inserting the new player without a rating of 1000.
form_add_player_Unrated(name) ==
    /\ AdminIdle
    /\ LET dup == \E i \in DOMAIN players : players[i].name = name
           ok == name # "" /\ ~dup
       IN  /\ players' = IF ok
                         THEN players @@ (NewPlayerId :> [name |-> name, elo |-> 0])
                         ELSE players
           /\ ui' = [ui EXCEPT !.op = "form_add_player", !.arg = name, !.nops = @ + 1,
                        !.rows = <<>>,
                        !.msg = IF name = "" THEN <<"error", "Player name cannot be empty">>
                                ELSE IF dup THEN <<"error", "Player '", name, "' already exists">>
                                ELSE <<"success", "Added player: ", name>>]
    /\ UNCHANGED <<games, game_players, conn, lock, ncalls, calc>>

\* form_add_player, submitted: an empty name is refused; INSERT INTO
\* players (name, elo) VALUES (:name, 1000) fails on the unique name with
\* IntegrityError.
form_add_player(name) ==
    /\ AdminIdle
    /\ LET dup == \E i \in DOMAIN players : players[i].name = name
           ok == name # "" /\ ~dup
       IN  /\ players' = IF ok
                         THEN players @@ (NewPlayerId :> [name |-> name, elo |-> 100000])
                         ELSE players
           /\ ui' = [ui EXCEPT !.op = "form_add_player", !.arg = name, !.nops = @ + 1,
                        !.rows = <<>>,
                        !.msg = IF name = "" THEN <<"error", "Player name cannot be empty">>
                                ELSE IF dup THEN <<"error", "Player '", name, "' already exists">>
                                ELSE <<"success", "Added player: ", name>>]
    /\ UNCHANGED <<games, game_players, conn, lock, ncalls, calc>>

\* form_delete_player, submitted and confirmed for one of the players
\* listed: DELETE FROM players WHERE id = :id.  Under enforced foreign keys
\* the statement fails for a player that games or game_players rows refer
\* to; otherwise it removes the players row and nothing else.
form_delete_player(player_id) ==
    /\ AdminIdle
    /\ player_id \in DOMAIN players
    /\ LET refused == ui.foreign_keys /\ Referenced(player_id)
       IN  /\ players' = IF refused THEN players
                         ELSE [i \in DOMAIN players \ {player_id} |-> players[i]]
           /\ ui' = [ui EXCEPT !.op = "form_delete_player", !.arg = player_id, !.nops = @ + 1,
                        !.rows = <<>>,
                        !.msg = IF refused
                                THEN <<"error", "Error deleting player: ", "IntegrityError">>
                                ELSE <<"success", "Deleted player: ", players[player_id].name,
                                       player_id>>]
    /\ UNCHANGED <<games, game_players, conn, lock, ncalls, calc>>

\* SELECT RANK() OVER (ORDER BY elo DESC) as rank, name, elo FROM players
\* ORDER BY elo DESC: players of one rating share a rank and are listed in
\* id order.
get_player_leaderboard ==
    /\ AdminIdle
    /\ LET ids == DOMAIN players
           before(i, j) == \/ players[i].elo > players[j].elo
                           \/ players[i].elo = players[j].elo /\ i < j
           order == CHOOSE f \in Perms(ids) : \A a, b \in DOMAIN f : a < b => before(f[a], f[b])
           rank(i) == 1 + Cardinality({j \in ids : players[j].elo > players[i].elo})
       IN  ui' = [ui EXCEPT !.op = "get_player_leaderboard", !.arg = <<>>, !.nops = @ + 1,
                     !.msg = <<>>,
                     !.rows = [a \in 1..Cardinality(ids) |->
                                 [rank |-> rank(order[a]), name |-> players[order[a]].name,
                                  elo |-> players[order[a]].elo]]]
    /\ UNCHANGED <<players, games, game_players, conn, lock, ncalls, calc>>

\* The selections the game form submits: players picked once each, a
\* commander for each of them, the winner one of them.
FormSelections ==
    {l \in SeqsUpTo(Range(Names), MaxListed) :
        l # <<>> /\ \A i, j \in DOMAIN l : l[i] = l[j] => i = j}

\* show_game_form, "Submit Game": submit_game(engine, game_date,
\* selected_players, submitted_commanders, winner).
show_game_form(p) ==
    /\ conn[p].pc \in {"idle", "done", "failed"}
    /\ \E listed \in FormSelections :
          \E winner \in Range(listed) :
              SBegin(p, listed, [i \in DOMAIN listed |-> <<listed[i], Commanders[1]>>],
                     winner)

NextAdmin ==
    \/ \E name \in AddNames : form_add_player(name)
    \/ \E player_id \in PlayerIds : form_delete_player(player_id)
    \/ get_player_leaderboard
    \/ show_game_form(MainConn)
    \/ SLookup(MainConn)
    \/ SInsertGame(MainConn)
    \/ SInsertPlayer(MainConn)
    \/ SCommit(MainConn)
    \/ SFail(MainConn)
    \/ USelectWinner(MainConn)
    \/ USelectLosers(MainConn)
    \/ UCalculate(MainConn)
    \/ UUpdate(MainConn)
    \/ UCommit(MainConn)
    \/ UFail(MainConn)

SpecAdmin == InitAdmin /\ [][NextAdmin]_vars

(***************************************************************************)
(* is_session_valid on its own: the session drawn from bounded sets.       *)
(***************************************************************************)
\* Sessions as init_session, login_form and logout_button leave them, and
\* those a test sets by hand: both keys set, or none.
SessionArgs ==
    {EmptySession}
    \cup {[admin |-> <<>>, authenticated |-> <<a>>, login_time |-> <<t>>] :
            a \in BOOLEAN, t \in {0} \cup {ClockStart + h * TickSeconds : h \in 0..MaxHours}}

InitValid ==
    /\ players = <<>>
    /\ games = <<>>
    /\ game_players = <<>>
    /\ conn = [p \in Conns |-> IdleConn]
    /\ lock = 0
    /\ ncalls = 0
    /\ ui = NoUi
    /\ \E ss \in SessionArgs, h \in 0..MaxHours :
          calc = [session_state |-> ss, now |-> ClockStart + h * TickSeconds,
                  result |-> <<>>]

IsSessionValid ==
    /\ calc.result = <<>>
    /\ calc' = [calc EXCEPT !.result = <<is_session_valid(calc.session_state, calc.now)>>]
    /\ UNCHANGED <<players, games, game_players, conn, lock, ncalls, ui>>

NextValid == IsSessionValid

SpecValid == InitValid /\ [][NextValid]_vars

(***************************************************************************)
(* Properties.                                                             *)
(***************************************************************************)
Finished(c) == c.pc \in {"done", "failed"}

\* Arguments as the submission flow passes them: an existing game, an
\* existing winner, at least one loser, the losers existing players other
\* than the winner, each listed once.
ValidCall(c) ==
    /\ c.game_id \in DOMAIN games
    /\ c.winner_id \in PlayerIds
    /\ c.loser_ids # <<>>
    /\ Range(c.loser_ids) \subseteq PlayerIds \ {c.winner_id}
    /\ \A i, j \in DOMAIN c.loser_ids : c.loser_ids[i] = c.loser_ids[j] => i = j

RECURSIVE SumSeq(_, _)
SumSeq(s, n) == IF n = 0 THEN 0 ELSE SumSeq(s, n - 1) + s[n]

\* The sum of elo_change over the game_players rows of game g.
RECURSIVE SumChanges(_, _)
SumChanges(g, ids) ==
    IF ids = {} THEN 0
    ELSE LET i == CHOOSE x \in ids : TRUE
         IN  game_players[<<g, i>>] + SumChanges(g, ids \ {i})

\* C1: update_elos_in_db is all-or-nothing.  Once a call has begun, the
\* committed store (what any other connection reads) is the store the call
\* found, until the call returns; after a call that failed at any step it is
\* still that store, and after a call that returned it is that store with
\* every UPDATE of the call applied.
C1_AllOrNothing ==
    \A p \in Conns :
        conn[p].pc # "idle" =>
            Store = IF conn[p].pc = "done"
                    THEN ApplyCall(conn[p].pre, conn[p])
                    ELSE conn[p].pre

\* C1 witness: a call with existing players failed in the store after at
\* least the winner's UPDATE was issued, and the store is as before the call.
C1_Witness ==
    /\ conn[MainConn].pc = "failed"
    /\ conn[MainConn].err = "OperationalError"
    /\ conn[MainConn].nupd >= 1
    /\ conn[MainConn].winner_id \in PlayerIds
    /\ conn[MainConn].loser_ids # <<>>
    /\ Store = conn[MainConn].pre

Sharing(a, b) ==
    ({a.winner_id} \cup Range(a.loser_ids)) \cap ({b.winner_id} \cup Range(b.loser_ids))

TestCall(c) ==
    /\ c.game_id = 1
    /\ c.winner_id = 1
    /\ c.loser_ids = <<2, 3>>
    /\ \A i \in PlayerIds : c.pre.players[i].elo = 100000

\* C6: after a successful call with valid arguments, the value returned for
\* the winner and for every loser is the elo_change stored in the game's
\* row for that player and is the player's stored elo minus the elo before
\* the call; and the call of three players at 1000 with winner 1 and losers
\* [2, 3], when the store does not fail, returns {1: 16, 2: -8, 3: -8} and
\* leaves elo 1016, 992, 992 and the same three elo_change values.
C6_ReturnedDeltasAreApplied ==
    \A p \in Conns :
        /\ (conn[p].pc = "done" /\ ValidCall(conn[p])) =>
              \A id \in {conn[p].winner_id} \cup Range(conn[p].loser_ids) :
                  /\ id \in DOMAIN conn[p].ret
                  /\ conn[p].ret[id] = game_players[<<conn[p].game_id, id>>]
                  /\ conn[p].ret[id] = players[id].elo - conn[p].pre.players[id].elo
        /\ ( /\ Finished(conn[p])
             /\ TestCall(conn[p])
             /\ (conn[p].pc = "failed" => conn[p].err # "OperationalError") )
           => /\ conn[p].pc = "done"
              /\ conn[p].ret = (1 :> 1600 @@ 2 :> -800 @@ 3 :> -800)
              /\ [i \in PlayerIds |-> players[i].elo] = <<101600, 99200, 99200>>
              /\ [i \in PlayerIds |-> game_players[<<1, i>>]] = <<1600, -800, -800>>

C10_EmptyLosersFails ==
    \A p \in Conns :
        (conn[p].pc # "idle" /\ conn[p].loser_ids = <<>>) =>
            /\ conn[p].pc \in {"sel_winner", "sel_losers", "calc", "failed"}
            /\ (conn[p].pc = "failed" => conn[p].nupd = 0)
            /\ Store = conn[p].pre

\* C10 witness: a call for an existing winner and game with no losers has
\* failed in calculate_elo's division by the number of losers.
C10_Witness ==
    /\ conn[MainConn].pc = "failed"
    /\ conn[MainConn].loser_ids = <<>>
    /\ conn[MainConn].winner_id \in PlayerIds
    /\ conn[MainConn].game_id \in DOMAIN games
    /\ conn[MainConn].err = "ZeroDivisionError"
    /\ Store = conn[MainConn].pre

\* C11: the winner gets the mean of the pairwise gains and loser i gets
\* -gain_i / N: when all N losers have the winner's rating, calculate_elo
\* returns winner_delta = K/2 and every loser's delta = -K/(2N), rounded to
\* two decimals (16.00 and -16.00 or -8.00, -8.00 at K = 32).
C11_EqualRatingsMeanGain ==
    ( /\ calc.result # <<>>
      /\ \A i \in DOMAIN calc.losers_elos : calc.losers_elos[i] = calc.winner_elo )
    => LET r == calc.result[1]
           N == Len(calc.losers_elos)
           share == Quantize2(DecDiv(Dec(calc.k_factor), Dec(2 * N)))
       IN  /\ r.err = ""
           /\ r.winner_delta = 50 * calc.k_factor
           /\ \A i \in 1..N : r.losers_deltas[i] = -share[1]

\* C12: for fixed ratings the deltas calculate_elo returns scale linearly
\* with k_factor (to within the cent each is rounded to), and at equal
\* ratings K = 16 gives 8.00/-8.00, K = 32 16.00/-16.00, K = 40 20.00/-20.00.
C12_DeltasLinearInK ==
    calc.result # <<>> =>
        LET r == calc.result[1]
            N == Len(calc.losers_elos)
        IN  /\ r.err = ""
            /\ \A k2 \in KFactors :
                  LET r2 == calculate_elo(<<calc.winner_elo>>, calc.losers_elos, k2)
                  IN  /\ r2.err = ""
                      /\ Abs(r.winner_delta * k2 - r2.winner_delta * calc.k_factor)
                            <= k2 + calc.k_factor
                      /\ \A i \in 1..N :
                            Abs(r.losers_deltas[i] * k2 - r2.losers_deltas[i] * calc.k_factor)
                               <= k2 + calc.k_factor
            /\ (calc.losers_elos = <<calc.winner_elo>>) =>
                  /\ r.winner_delta = 50 * calc.k_factor
                  /\ r.losers_deltas = <<-50 * calc.k_factor>>

\* C13: in a two-player game a winner rated below the loser gains more than
\* K/2 and a winner rated above the loser gains less than K/2, and
\* calculate_elo(1200, [1000]) returns 3.20, -3.20 and 1203.20, 996.80.
C13_GainFollowsRatingGap ==
    (calc.result # <<>> /\ Len(calc.losers_elos) = 1) =>
        LET r == calc.result[1]
        IN  /\ r.err = ""
            /\ calc.winner_elo < calc.losers_elos[1] => r.winner_delta > 50 * calc.k_factor
            /\ calc.winner_elo > calc.losers_elos[1] => r.winner_delta < 50 * calc.k_factor
            /\ ( /\ calc.winner_elo = 120000
                 /\ calc.losers_elos = <<100000>>
                 /\ calc.k_factor = K_FACTOR )
               => /\ r.winner_delta = 320
                  /\ r.losers_deltas = <<-320>>
                  /\ r.winner_new_elo = 120320
                  /\ r.losers_new_elos = <<99680>>

\* C14: calculate_elo returns every rating and delta rounded to two
\* fractional digits also for ratings of four integer digits with
\* fractional parts: calculate_elo(1234.56, [987.65, 1056.78]) returns
\* winner_new_elo 1238.29 and losers_new_elos [983.41, 1052.74].
C14_TwoDecimalsAtFourDigits ==
    ( /\ calc.result # <<>>
      /\ calc.winner_elo = 123456
      /\ calc.losers_elos = <<98765, 105678>>
      /\ calc.k_factor = K_FACTOR )
    => /\ calc.result[1].err = ""
       /\ calc.result[1].winner_new_elo = 123829
       /\ calc.result[1].losers_new_elos = <<98341, 105274>>

\* C15: calculate_elo is total: for every winner rating, every non-empty
\* list of loser ratings and every K-factor in the normal range it returns
\* a result and raises no exception.
C15_CalculateIsTotal ==
    calc.result # <<>> => calc.result[1].err = ""

\* The game_players rows of game g.
RowsOf(g) == {r \in DOMAIN game_players : r[1] = g}

\* C16: submit_game creates the games row and all of its game_players rows
\* in one atomic step: whenever the committed store gains a games row or a
\* game_players row, it gains exactly one game together with one row for
\* every entry of the submission's commanders mapping, each with
\* elo_change 0, and nothing else changes.
C16_GameAndRowsTogether ==
    [][ (games' # games \/ DOMAIN game_players' # DOMAIN game_players) =>
          LET c == conn[MainConn]
              g == Cardinality(DOMAIN games) + 1
          IN  /\ c.op = "submit_game"
              /\ c.pc \in {"s_ins_game", "s_ins_players"}
              /\ \A i \in DOMAIN c.player_ids : c.player_ids[i] # <<>>
              /\ DOMAIN games' = DOMAIN games \cup {g}
              /\ \A x \in DOMAIN games : games'[x] = games[x]
              /\ LET rows == {<<g, c.player_ids[i][1]>> : i \in DOMAIN c.player_ids}
                 IN  /\ rows # {}
                     /\ DOMAIN game_players' = DOMAIN game_players \cup rows
                     /\ \A r \in rows : game_players'[r] = 0
                     /\ \A r \in DOMAIN game_players : game_players'[r] = game_players[r]
      ]_vars

\* C16 witness: a submission of two or more players has just committed its
\* game with all its rows at elo_change 0.
C16_Witness ==
    /\ conn[MainConn].pc = "sel_winner"
    /\ conn[MainConn].op = "submit_game"
    /\ conn[MainConn].game_id \in DOMAIN games
    /\ Cardinality(RowsOf(conn[MainConn].game_id)) >= 2
    /\ \A r \in RowsOf(conn[MainConn].game_id) : game_players[r] = 0

\* C17: a failed submission leaves no partial data: whenever submit_game
\* has raised (here: by an exception other than a failure of the store
\* itself, for a submission with at least one loser, or before its commit),
\* the store holds no games row and no game_players row that was not there
\* before the call.
C17_FailedSubmissionLeavesNothing ==
    \A p \in Conns :
        (conn[p].pc = "failed" /\ conn[p].op = "submit_game") =>
            IF "game_id" \in DOMAIN conn[p]
            THEN (conn[p].err # "OperationalError" /\ conn[p].loser_ids # <<>>) =>
                    /\ conn[p].game_id \notin DOMAIN games
                    /\ RowsOf(conn[p].game_id) = {}
            ELSE /\ games = conn[p].pre_games
                 /\ DOMAIN game_players = DOMAIN conn[p].pre.game_players

\* C18: for every game submit_game creates, update_elos_in_db runs once
\* and only after the game and its rows exist, so that, the store not
\* failing, once the submission of a winner and at least one loser is over
\* every participant row's elo_change is the delta computed for the
\* player and every participant's rating is advanced by it.
C18_UpdateAppliedOncePerGame ==
    \A p \in Conns :
        ( /\ conn[p].pc \notin {"idle", "s_lookup", "s_ins_game", "s_ins_players"}
          /\ conn[p].op = "submit_game"
          /\ "game_id" \in DOMAIN conn[p] )
        => /\ conn[p].game_id \in DOMAIN games
           /\ <<conn[p].game_id, conn[p].winner_id>> \in DOMAIN game_players
           /\ \A i \in DOMAIN conn[p].loser_ids :
                  <<conn[p].game_id, conn[p].loser_ids[i]>> \in DOMAIN game_players
           /\ ( /\ Finished(conn[p])
                /\ conn[p].loser_ids # <<>>
                /\ (conn[p].pc = "failed" => conn[p].err # "OperationalError") )
              => /\ conn[p].pc = "done"
                 /\ \A r \in RowsOf(conn[p].game_id) :
                        /\ r[2] \in DOMAIN conn[p].ret
                        /\ game_players[r] = conn[p].ret[r[2]]
                        /\ players[r[2]].elo
                             = conn[p].pre.players[r[2]].elo + conn[p].ret[r[2]]

\* C19: every game in the store has at least 2 game_players rows, whatever
\* the arguments of the submit_game calls.
C19_GameHasTwoRows ==
    \A g \in DOMAIN games : Cardinality(RowsOf(g)) >= 2

\* C20: for every game in the store, the player games.winner_id names has a
\* game_players row for that game.
C20_WinnerIsParticipant ==
    \A g \in DOMAIN games : <<g, games[g].winner_id>> \in DOMAIN game_players

\* C20 witness: a submission has committed a game with another player
\* beside the winner, and the winner's row is there.
C20_Witness ==
    /\ conn[MainConn].pc = "sel_winner"
    /\ conn[MainConn].op = "submit_game"
    /\ conn[MainConn].loser_ids # <<>>
    /\ <<conn[MainConn].game_id, games[conn[MainConn].game_id].winner_id>>
          \in DOMAIN game_players

\* C21: validate_game_submission returns "At least 2 players required"
\* when players has fewer than 2 entries (checked first), otherwise "Winner
\* must be one of the selected players" when the winner is not in players,
\* and None exactly when there are 2 or more entries and the winner is one
\* of them; submit_game raises ValueError with that message before any
\* access to the store (no lookup made, no row written, no lock taken)
\* whenever the result is not None, and goes on to the store only when it
\* is None.
C21_ValidationFirst ==
    \A p \in Conns :
        /\ conn[p].pc = "s_lookup" =>
              /\ Len(conn[p].listed) >= 2
              /\ conn[p].winner \in Range(conn[p].listed)
        /\ (conn[p].pc = "failed" /\ conn[p].err = "ValueError") =>
              /\ Len(conn[p].listed) < 2 \/ conn[p].winner \notin Range(conn[p].listed)
              /\ Len(conn[p].listed) < 2 => conn[p].msg = "At least 2 players required"
              /\ Len(conn[p].listed) >= 2 =>
                    conn[p].msg = "Winner must be one of the selected players"
              /\ "winner_id" \notin DOMAIN conn[p]
              /\ Store = conn[p].pre
              /\ games = conn[p].pre_games
              /\ lock = 0

\* C21 witness: a submission with fewer than two players and a winner who
\* is not among them was refused for the number of players.
C21_Witness ==
    /\ conn[MainConn].pc = "failed"
    /\ conn[MainConn].err = "ValueError"
    /\ Len(conn[MainConn].listed) = 1
    /\ conn[MainConn].winner \notin Range(conn[MainConn].listed)
    /\ conn[MainConn].msg = "At least 2 players required"

\* The stores a run of update_elos_in_db calls starts from.
InitStores ==
    {[players |-> [i \in PlayerIds |-> [name |-> Names[i], elo |-> t[i]]],
      game_players |-> [r \in {1} \X PlayerIds |-> 0]] : t \in InitElos}

\* The call c is a second call: the store it found is the one a first call
\* with the same arguments leaves on the initial store.
SecondCall(c) ==
    /\ ncalls >= 2
    /\ ValidCall(c)
    /\ \E S \in InitStores : c.pre = ApplyCall(S, c)

\* C26: update_elos_in_db is not idempotent: a second call for the same
\* game with the same winner and losers, the store not failing, returns and
\* moves the elo of every participant a second time, from the ratings the
\* first call left, and the game's elo_change rows hold the second call's
\* deltas, not the sum of the two calls' deltas.
C26_SecondCallMovesAgain ==
    \A p \in Conns :
        ( /\ Finished(conn[p])
          /\ SecondCall(conn[p])
          /\ (conn[p].pc = "failed" => conn[p].err # "OperationalError") )
        => /\ conn[p].pc = "done"
           /\ \A id \in {conn[p].winner_id} \cup Range(conn[p].loser_ids) :
                  /\ players[id].elo # conn[p].pre.players[id].elo
                  /\ game_players[<<conn[p].game_id, id>>] = conn[p].ret[id]
                  /\ game_players[<<conn[p].game_id, id>>]
                        # conn[p].pre.game_players[<<conn[p].game_id, id>>] + conn[p].ret[id]

\* C27: a successful update_elos_in_db for game g with winner w and losers
\* L changes only the elo of players in {w} union L and only the elo_change
\* of game g's rows: in every step that changes the committed players or
\* game_players, the change is the commit of one call, no row appears or
\* disappears, no name changes, the elo of every player outside {w} union L
\* and every row of another game (rows the same players have in earlier
\* games, with the deltas already written there) stay as they were.
C27_OnlyParticipantsAndGame ==
    [][ (players' # players \/ game_players' # game_players) =>
          \E p \in Conns :
              LET c == conn[p]
                  part == {c.winner_id} \cup Range(c.loser_ids)
              IN  /\ c.pc = "upd"
                  /\ conn'[p].pc = "done"
                  /\ DOMAIN players' = DOMAIN players
                  /\ DOMAIN game_players' = DOMAIN game_players
                  /\ \A i \in DOMAIN players :
                         /\ players'[i].name = players[i].name
                         /\ i \notin part => players'[i].elo = players[i].elo
                  /\ \A r \in DOMAIN game_players :
                         (r[1] # c.game_id \/ r[2] \notin part) =>
                             game_players'[r] = game_players[r]
      ]_vars

\* C27 witness: two calls for different games have returned; the later one
\* found the deltas of the earlier game written and left them as they were,
\* and a player in neither list of the later call kept its rating.
C27_Witness ==
    \E a, b \in Conns :
        /\ a # b
        /\ conn[a].pc = "done"
        /\ conn[b].pc = "done"
        /\ conn[b].pre.game_players[<<conn[a].game_id, conn[a].winner_id>>] # 0
        /\ \A r \in {conn[a].game_id} \X PlayerIds :
               game_players[r] = conn[b].pre.game_players[r]
        /\ Sharing(conn[a], conn[b]) # {}
        /\ \E i \in PlayerIds :
               /\ i \notin {conn[b].winner_id} \cup Range(conn[b].loser_ids)
               /\ players[i].elo = conn[b].pre.players[i].elo

\* C24: when the login form is submitted with the configured password,
\* login_form returns True in that call and the session is marked
\* authenticated; when it is submitted with any other password, or no
\* password is configured, login_form returns False, the session stays
\* unauthenticated and an error is shown.
C24_LoginFormResult ==
    (ui # NoUi /\ ui.event = "login") =>
        IF ui.stored_pw # <<>> /\ ui.password = ui.stored_pw
        THEN /\ ui.ret = "True"
             /\ ui.session_state.authenticated = <<TRUE>>
        ELSE /\ ui.ret = "False"
             /\ ui.session_state.authenticated = <<FALSE>>
             /\ ui.errors # <<>>

\* C25: a session is valid exactly when it is authenticated and fewer than
\* 8 hours have elapsed since login_time: is_session_valid is False for an
\* authenticated session whose login_time is 8 hours or more in the past,
\* and False for every unauthenticated session whatever its login_time.
C25_ValidUnderEightHours ==
    calc.result # <<>> =>
        LET ss == calc.session_state
            authenticated == ss.authenticated = <<TRUE>>
        IN  /\ calc.result[1] =
                 (authenticated /\ calc.now - ss.login_time[1] < 8 * 3600)
            /\ (authenticated /\ calc.now - ss.login_time[1] >= 8 * 3600)
                  => calc.result[1] = FALSE
            /\ ~authenticated => calc.result[1] = FALSE

\* C25 witness: an authenticated session whose login is exactly 8 hours
\* old was found not valid.
C25_Witness ==
    /\ calc.result = <<FALSE>>
    /\ calc.session_state.authenticated = <<TRUE>>
    /\ calc.now - calc.session_state.login_time[1] = 8 * 3600

\* C30: the admin dashboard is rendered in a run only if the session is
\* valid in that run: whatever the sequence of switches to admin, login
\* attempts, logouts and passage of time, a run reaches show_admin_page
\* only when the correct password was submitted less than 8 hours before
\* and no logout happened since; and a logout sets authenticated to False
\* and login_time to 0.
C30_AdminOnlyWhenValid ==
    [][ (ui'.now = ui.now /\ ui'.reached_admin) =>
          /\ ui.good_login # -1
          /\ ui.now - ui.good_login < 8 * 3600
          /\ ui.good_login <= ui.now
          /\ ui'.event = "logout" =>
                /\ ui'.session_state.authenticated = <<FALSE>>
                /\ ui'.session_state.login_time = <<0>>
      ]_vars

\* C30 witness: a run rendered the dashboard for a session whose login is
\* some hours old, after an earlier logout and a new login.
C30_Witness ==
    /\ ui.reached_admin
    /\ ui.event = "none"
    /\ ui.good_login > ClockStart
    /\ ui.now - ui.good_login >= TickSeconds
    /\ ui.session_state.login_time = <<ui.good_login>>

\* C22: a player's rating is changed only by update_elos_in_db: in every
\* step of the admin forms, the leaderboard query and submit_game, the elo
\* of a player who is there before and after the step changes only when
\* the step is the commit of update_elos_in_db; adding a player, deleting
\* another player, the record creation of submit_game and the queries leave
\* it as it was, and a player added through the admin form starts with elo
\* 1000.
C22_RatingChangedOnlyByUpdater ==
    [][ /\ \A i \in DOMAIN players \cap DOMAIN players' :
               players'[i].elo # players[i].elo =>
                   \E p \in Conns :
                       /\ conn[p].pc = "upd"
                       /\ conn'[p].pc = "done"
                       /\ i \in {conn[p].winner_id} \cup Range(conn[p].loser_ids)
        /\ \A i \in DOMAIN players' \ DOMAIN players :
               /\ ui'.op = "form_add_player"
               /\ players'[i].elo = 100000
      ]_vars

\* C22 witness: in a store where update_elos_in_db has moved ratings, a
\* player was added with 1000 while the others kept theirs.
C22_Witness ==
    /\ ui # NoUi
    /\ ui.op = "form_add_player"
    /\ ui.msg[1] = "success"
    /\ \E i \in DOMAIN players : players[i].name = ui.arg /\ players[i].elo = 100000
    /\ \E r \in DOMAIN game_players : game_players[r] # 0
    /\ \E i \in DOMAIN players : players[i].elo \notin {100000, 1000 * i}

\* C23: after any sequence of add-player submissions all player names in
\* the store are non-empty and pairwise distinct: a submission of the empty
\* name or of a name that exists reports an error ("Player '<name>' already
\* exists" for the existing name) and leaves the players table unchanged,
\* and any other submission adds one player of that name.
C23_NamesUniqueNonEmpty ==
    [][ /\ \A i \in DOMAIN players' : players'[i].name # ""
        /\ \A i, j \in DOMAIN players' : players'[i].name = players'[j].name => i = j
        /\ (ui'.op = "form_add_player" /\ ui'.nops # ui.nops) =>
              LET name == ui'.arg
                  exists == \E i \in DOMAIN players : players[i].name = name
              IN  /\ name = "" =>
                        /\ ui'.msg[1] = "error"
                        /\ players' = players
                  /\ exists =>
                        /\ ui'.msg = <<"error", "Player '", name, "' already exists">>
                        /\ players' = players
                  /\ (name # "" /\ ~exists) =>
                        /\ ui'.msg = <<"success", "Added player: ", name>>
                        /\ \E i \in DOMAIN players' \ DOMAIN players :
                               /\ players'[i].name = name
                               /\ DOMAIN players' = DOMAIN players \cup {i}
                        /\ \A i \in DOMAIN players : players'[i] = players[i]
      ]_vars

\* C23 witness: the form was submitted with the name of a player added
\* before, and the table is as it was: one player of that name.
C23_Witness ==
    /\ ui # NoUi
    /\ ~ui.fixture
    /\ ui.op = "form_add_player"
    /\ ui.msg = <<"error", "Player '", ui.arg, "' already exists">>
    /\ Cardinality({i \in DOMAIN players : players[i].name = ui.arg}) = 1

\* No games row and no game_players row refers to a player id that the
\* players table does not hold.
NoDanglingPlayer ==
    /\ \A g \in DOMAIN games : games[g].winner_id \in DOMAIN players
    /\ \A r \in DOMAIN game_players : r[2] \in DOMAIN players

\* C28: confirming the deletion of a player in the admin form removes that
\* player and all their game records: after it the player is gone, and no
\* games.winner_id and no game_players.player_id refers to a player id
\* absent from the players table.
C28_DeleteRemovesPlayerAndRecords ==
    (ui # NoUi /\ ui.op = "form_delete_player") =>
        /\ ui.arg \notin DOMAIN players
        /\ NoDanglingPlayer

\* The sum of elo_change over the game_players rows of player i.
RECURSIVE SumRows(_)
SumRows(rows) ==
    IF rows = {} THEN 0
    ELSE LET r == CHOOSE x \in rows : TRUE
         IN  game_players[r] + SumRows(rows \ {r})

============================================================================
